---- MODULE Spec2Model ----
(***************************************************************************)
(* Process-simulation backend: the session store (session_manager.py),     *)
(* the /api/simulate handler (main.py) with its baseline short-circuit,    *)
(* the life cycle of the KPI model (ml_model.py and startup_event of       *)
(* main.py) and the feature encoders (feature_extraction.py and            *)
(* train_model.py).                                                        *)
(*                                                                         *)
(* The handlers are `async def` bodies without a single await, served by   *)
(* one uvicorn event loop (main.py:751-753), and SessionManager has no     *)
(* thread of its own: every handler and every SessionManager method runs   *)
(* to completion before the next starts, so each is one atomic action.     *)
(*                                                                         *)
(* Units: times of day in seconds; activity times in tenths of an hour;    *)
(* model heads in hundredths; KPI values in hundredths of their unit.      *)
(***************************************************************************)
EXTENDS Integers, Sequences, FiniteSets, TLC

VARIABLES
    sessions,            \* SessionManager.sessions: session id -> session dict
    nextId,              \* the next identifier uuid.uuid4() hands out (always unused)
    now,                 \* time.time()
    reaped,              \* history: ids removed by cleanup_expired_sessions
    use_ml_predictions,  \* main.py module flag set by startup_event
    pending,             \* a /api/simulate request received and not yet handled
    served,              \* history: session and entities of the simulate answers
                         \* given since that session's scenario was last written
    last,                \* the most recent operation, its argument and its outcome
    ops,                 \* the number of operations performed so far
    disk,                \* the data directory and the trained_models directory
    manager,             \* main.py model_manager: None or the ModelManager's fields
    phase,               \* "offline" before startup_event has run, then "serving"
    scenario_generator,  \* main.py scenario_generator: None or its tables
    random_state,        \* the random module: None while it runs on the entropy
                         \* the interpreter started with, else seed and draws
    hash_seed,           \* the salt of str hashes, drawn when the interpreter starts
    generator_calls      \* history: the calls of generate_scenario_entities, in order

vars == <<sessions, nextId, now, reaped, use_ml_predictions, pending, served, last, ops,
          disk, manager, phase, scenario_generator, random_state, hash_seed, generator_calls>>

-----------------------------------------------------------------------------
(* Bounds of the model *)
MaxSessions == 2        \* identifiers the store hands out in one run
MaxSeed == 1            \* seeds are drawn from 0..MaxSeed
MaxTicks == 2           \* clock steps in one run
MaxRequestCount == 2    \* cap of a session's request_count
MaxActs == 3            \* longest activity list of a request
NumActivities == 3      \* size of the activity catalog
MaxByte == 1            \* bytes of a data file are drawn from 0..MaxByte
FileLen == 2            \* length of a data file
MaxEdits == 1           \* changes made to the data files in one run
MaxEdges == 2           \* longest edge list of an encoder call
LongList == 40          \* length of the long activity list of an encoder call
MaxHashSeed == 1        \* the interpreter's hash salt is drawn from 0..MaxHashSeed
MaxOps == 4             \* operations in one run

(* Program constants *)
SessionTimeout == 3600
ToleranceTenths == 5
DefaultAvgTime == 20
MlConfidence == 85
FallbackConfidence == 50

\* Python None / an absent optional value, and a present one
None == <<>>
Some(x) == <<x>>

\* request.session_id when the client sent none (None or "" are both falsy)
NoSession == 0
\* a token the store never issued (a stale or invented client id)
ForeignTokens == {-1}
SessionIds == 1..MaxSessions
IssuedIds == 1..(nextId - 1)
\* the tokens a client can present: nothing, an invented one, or an id it was given
Tokens == {NoSession} \cup ForeignTokens \cup IssuedIds

Seeds == 0..MaxSeed
TickStep == SessionTimeout \div 2 + 1
MaxTime == MaxTicks * TickStep

\* entity sets a caller can hand to store_entities (the numbers of the
\* formatted ids: 1 is U001, I001 or S001)
EntityChoices ==
    { [users |-> <<1>>, items |-> <<1>>, suppliers |-> <<1>>],
      [users |-> <<2>>, items |-> <<2>>, suppliers |-> <<5>>] }
\* constraints extract_entity_info_from_prompt can produce (never an empty dict)
ConstraintChoices == { [num_users |-> 2] }

Abs(x) == IF x < 0 THEN -x ELSE x
Range(s) == { s[i] : i \in DOMAIN s }

-----------------------------------------------------------------------------
(* SessionManager *)

\* the dict create_session stores for a new session
NewSession(seed, t) ==
    [ seed |-> seed, created_at |-> t, last_access |-> t, request_count |-> 0,
      entities |-> None, entity_constraints |-> None ]

\* create_session: register a new dict under a new uuid
CreateSessionIn(ss, id, seed, t) ==
    [ i \in DOMAIN ss \cup {id} |-> IF i = id THEN NewSession(seed, t) ELSE ss[i] ]

\* get_session_seed, lines 68-71: the access bookkeeping on the session dict
TouchSession_Reseed(s, t) ==
    [ s EXCEPT !.seed = (@ + 1) % (MaxSeed + 1), !.last_access = t,
               !.request_count = @ + 1 ]
TouchSession_ClearEntities(s, t) ==
    [ s EXCEPT !.last_access = t, !.request_count = @ + 1, !.entities = None ]
TouchSession(s, t) ==
    [ s EXCEPT !.last_access = t, !.request_count = @ + 1 ]

\* get_session_seed: whether the call has to create a session
NeedsNewSession(ss, sid) == sid = NoSession \/ sid \notin DOMAIN ss

\* get_session_seed: the store, the seed returned and whether the lookup of
\* line 69 raised KeyError.  newId/newSeed are what uuid4 and randint give
\* when a session has to be created.
SessionSeedLookup(ss, sid, newId, newSeed, t) ==
    LET created == NeedsNewSession(ss, sid)
        id == IF created THEN newId ELSE sid
        ss1 == IF created THEN CreateSessionIn(ss, newId, newSeed, t) ELSE ss
    IN  IF id \notin DOMAIN ss1
        THEN [ store |-> ss1, seed |-> -1, raised |-> TRUE, created |-> created ]
        ELSE [ store |-> [ ss1 EXCEPT ![id] = TouchSession(ss1[id], t) ],
               seed |-> ss1[id].seed, raised |-> FALSE, created |-> created ]

\* reset_session, lines 86-92
ResetSessionDict(s, newSeed, t) ==
    [ s EXCEPT !.seed = newSeed, !.last_access = t, !.request_count = 0,
               !.entities = None, !.entity_constraints = None ]

\* get_entities
GetEntitiesOf(ss, sid) ==
    IF sid \in DOMAIN ss THEN ss[sid].entities ELSE None

\* get_entity_constraints
GetEntityConstraintsOf(ss, sid) ==
    IF sid \in DOMAIN ss THEN ss[sid].entity_constraints ELSE None

\* store_entities
StoreEntitiesIn_AllSessions(ss, sid, ents) ==
    [ i \in DOMAIN ss |-> [ ss[i] EXCEPT !.entities = Some(ents) ] ]
StoreEntitiesIn(ss, sid, ents) ==
    IF sid \in DOMAIN ss THEN [ ss EXCEPT ![sid].entities = Some(ents) ] ELSE ss

\* store_entity_constraints
StoreEntityConstraintsIn(ss, sid, c) ==
    IF sid \in DOMAIN ss THEN [ ss EXCEPT ![sid].entity_constraints = Some(c) ] ELSE ss

\* cleanup_expired_sessions: the ids collected in `expired`
Expired(ss, t) == { id \in DOMAIN ss : t - ss[id].last_access > SessionTimeout }

\* the store without the ids in gone (del self.sessions[id])
Without(ss, gone) == [ i \in DOMAIN ss \ gone |-> ss[i] ]

-----------------------------------------------------------------------------
(* Model Lifecycle Manager: ml_model.py *)

KPI_NAMES ==
    << "on_time_delivery", "days_sales_outstanding", "order_accuracy",
       "invoice_accuracy", "avg_cost_delivery" >>
KPI_MULTIPLIERS == << 100, 90, 100, 100, 100 >>

KpiIndex(name) == CHOOSE i \in DOMAIN KPI_NAMES : KPI_NAMES[i] = name

\* denormalize_kpi: normalized value (hundredths) times the KPI's multiplier
DenormalizeKpi(normalized_value, kpi_index) ==
    normalized_value * KPI_MULTIPLIERS[kpi_index]

\* denormalize_kpis: one entry per KPI name, in KPI_NAMES order
DenormalizeKpis(normalized_predictions) ==
    [ name \in Range(KPI_NAMES) |->
        DenormalizeKpi(normalized_predictions[KpiIndex(name)], KpiIndex(name)) ]

\* the five head outputs the network can give for a feature vector; the
\* weights are not part of the source, so they are any of these.  The heads
\* are Dense(1, activation='linear'): nothing keeps an output inside 0..100.
HeadVectors ==
    { << 87, 42, 81, 77, 33 >>, << 15, 80, 60, 55, 70 >>, << 120, -10, 81, 77, 33 >> }

\* ModelManager.predict with a loaded model: predict_kpis
Predict(heads) == DenormalizeKpis(heads)

\* ModelManager.baseline_kpis (the default record of _load_baseline_kpis)
BaselineKpis ==
    [ name \in Range(KPI_NAMES) |->
        CASE name = "on_time_delivery" -> 7980
          [] name = "days_sales_outstanding" -> 3800
          [] name = "order_accuracy" -> 8130
          [] name = "invoice_accuracy" -> 7650
          [] name = "avg_cost_delivery" -> 3348 ]

\* FEATURE_DIM, the input width build_kpi_model gives a model by default, and
\* the input width of the model train_model.py builds and saves
FEATURE_DIM == 409
BuildModelInputDim == 417

\* sorted(files_to_hash) of calculate_dataset_hash
FilesToHash ==
    << "items.csv", "o2c_data_orders_only.xml", "order_items.csv",
       "order_kpis.csv", "order_suppliers.csv", "order_users.csv",
       "orders_enriched.csv", "suppliers.csv", "users.csv" >>

\* the data files startup_event requires before it initializes the manager
RequiredDataFiles ==
    { "users.csv", "items.csv", "suppliers.csv", "order_kpis.csv",
      "orders_enriched.csv" }

Bytes == 0..MaxByte

\* the bytes the chunked read loop of calculate_dataset_hash feeds to the
\* hash for one file: every chunk, in order
ReadChunks_FirstByteOnly(content) ==
    IF content = << >> THEN << >> ELSE << Head(content) >>
ReadChunks(content) == [ k \in DOMAIN content |-> content[k] ]

\* hashlib.sha256: update appends to the stream hashed so far.  SHA-256 is
\* taken to be collision-free, so a digest stands for the stream it was fed.
HashUpdate(stream, chunk) == stream \o chunk
HexDigest(stream) == << "sha256", stream >>

\* calculate_dataset_hash(data_dir): the files that exist, in sorted order
RECURSIVE HashFiles(_, _, _)
HashFiles(data, i, stream) ==
    IF i > Len(FilesToHash) THEN stream
    ELSE HashFiles(data, i + 1,
                   IF data[FilesToHash[i]] # None
                   THEN HashUpdate(stream, ReadChunks(data[FilesToHash[i]][1]))
                   ELSE stream)
CalculateDatasetHash(data) == HexDigest(HashFiles(data, 1, << >>))

\* check_cached_model(models_dir, current_hash)
CheckCachedModel(d, current_hash) ==
    IF d.model_file = None \/ d.hash_file = None
    THEN FALSE
    ELSE d.hash_file[1] = current_hash

\* load_model_and_scalers(models_dir): the model artifact and the six scaler
\* files; any of them missing raises.  The loaded bundle is remembered with
\* the fingerprint stored next to it.
LoadModelAndScalers(d) ==
    IF d.model_file = None \/ ~ d.scaler_files
    THEN [ raised |-> TRUE, model |-> None, scalers |-> None ]
    ELSE [ raised |-> FALSE,
           model |-> Some([ input_dim |-> d.model_file[1].input_dim,
                            stored_hash |-> d.hash_file ]),
           scalers |-> Some("fitted") ]

\* ModelManager.__init__
NewModelManager == [ model |-> None, scalers |-> None, baseline_kpis |-> None ]

\* ModelManager.initialize(force_retrain) on manager m: the manager it
\* leaves and the exception it raises ("" for none).  _train_model always
\* raises NotImplementedError.
InitializeManager_RaiseGeneric(m, d, force_retrain) ==
    [ manager |-> m, raised |-> "Exception" ]
InitializeManager(m, d, force_retrain) ==
    LET current_hash == CalculateDatasetHash(d.data)
        use_cached == ~ force_retrain /\ CheckCachedModel(d, current_hash)
        loaded == LoadModelAndScalers(d)
    IN  IF use_cached /\ ~ loaded.raised
        THEN [ manager |-> [ model |-> loaded.model, scalers |-> loaded.scalers,
                             baseline_kpis |-> Some(BaselineKpis) ],
               raised |-> "" ]
        ELSE [ manager |-> m, raised |-> "NotImplementedError" ]

\* ModelManager.predict(feature_vector) for a vector of width dim: the
\* exception it raises ("" for none) and the record it returns
PredictOf_Unguarded(m, dim, heads) ==
    [ raised |-> "", ret |-> Some(Predict(heads)) ]
PredictOf(m, dim, heads) ==
    IF m.model = None
    THEN [ raised |-> "ValueError: Model not initialized", ret |-> None ]
    ELSE IF dim # m.model[1].input_dim
    THEN [ raised |-> "ValueError: incompatible input shape", ret |-> None ]
    ELSE [ raised |-> "", ret |-> Some(Predict(heads)) ]

\* ModelManager.get_baseline_kpis on manager m: the manager it leaves (the
\* record is loaded on first use if none was loaded before)
GetBaselineKpis_DropModel(m) == [ m EXCEPT !.model = None, !.scalers = None ]
GetBaselineKpis(m) ==
    IF m.baseline_kpis = None THEN [ m EXCEPT !.baseline_kpis = Some(BaselineKpis) ] ELSE m

\* isinstance(exc, cls) for the exception classes that occur here
IsInstance(exc, cls) ==
    \/ exc = cls
    \/ cls = "Exception" /\ exc \in { "NotImplementedError", "ValueError", "OSError" }

\* startup_event, lines 147-213: what it leaves in model_manager and
\* use_ml_predictions, whether it constructed the scenario generator, and
\* the exception that escapes it ("" for none).
\* model_manager is assigned before initialize is called, so it stays
\* constructed when initialize raises.
StartupOutcome_EnableAlways(d) ==
    [ manager |-> Some(NewModelManager), use_ml |-> TRUE, generator |-> TRUE,
      escaped |-> "" ]
StartupOutcome(d) ==
    LET data_files_exist == \A f \in RequiredDataFiles : d.data[f] # None
        init == InitializeManager(NewModelManager, d, FALSE)
        direct == LoadModelAndScalers(d)
        constructed == Some(NewModelManager)
    IN  IF ~ (d.model_file # None /\ data_files_exist)
        THEN [ manager |-> None, use_ml |-> FALSE, generator |-> FALSE, escaped |-> "" ]
        ELSE IF init.raised = ""
        THEN [ manager |-> Some(init.manager), use_ml |-> TRUE, generator |-> TRUE,
               escaped |-> "" ]
        ELSE IF IsInstance(init.raised, "NotImplementedError")
        THEN IF ~ direct.raised
             THEN [ manager |->
                       Some([ model |-> direct.model, scalers |-> direct.scalers,
                              baseline_kpis |-> Some(BaselineKpis) ]),
                    use_ml |-> TRUE, generator |-> TRUE, escaped |-> "" ]
             ELSE [ manager |-> constructed, use_ml |-> FALSE, generator |-> FALSE,
               escaped |-> "" ]
        ELSE IF IsInstance(init.raised, "Exception")
        THEN [ manager |-> constructed, use_ml |-> FALSE, generator |-> FALSE,
               escaped |-> "" ]
        ELSE [ manager |-> constructed, use_ml |-> FALSE, generator |-> FALSE,
               escaped |-> init.raised ]

-----------------------------------------------------------------------------
(* Baseline and adjustment engine: main.py, simulate_process steps 5-6 *)

\* data_loader.get_most_frequent_variant_activities(): the canonical
\* reference activity list (activities are catalog indices)
BaselineActivities == << 1, 2 >>
\* an activity of the catalog that is not part of the baseline
NonBaselineActivity == Len(BaselineActivities) + 1

\* data_loader.get_event_kpis_for_activities(baseline_activities): one entry
\* per baseline activity; 1.0 h is the loader's default for a first event
BaselineKpisData ==
    [ a \in Range(BaselineActivities) |->
        [ avg_time |-> IF a = 1 THEN 10 ELSE 32 ] ]

\* sorted(list): insertion sort
RECURSIVE Insert(_, _)
Insert(x, s) ==
    IF s = << >> THEN << x >>
    ELSE IF x <= Head(s) THEN << x >> \o s
    ELSE << Head(s) >> \o Insert(x, Tail(s))

RECURSIVE Sorted(_)
Sorted(s) == IF s = << >> THEN << >> ELSE Insert(Head(s), Sorted(Tail(s)))

\* line 474
IsBaselineActivities(activities) == Sorted(activities) = Sorted(BaselineActivities)

\* kpi_vals.get('avg_time', 2.0)
AvgTimeOf(kpi_vals) ==
    IF kpi_vals.avg_time = None THEN DefaultAvgTime ELSE kpi_vals.avg_time[1]

\* baseline_kpis_data.get(activity, {}).get('avg_time', 2.0)
BaselineTimeOf(activity) ==
    IF activity \in DOMAIN BaselineKpisData
    THEN BaselineKpisData[activity].avg_time ELSE DefaultAvgTime

\* line 487: the test that marks an activity's time as modified
TimeModified(avg_time, baseline_time) ==
    Abs(avg_time - baseline_time) > ToleranceTenths

\* lines 477-490
HasBaselineKpis(is_baseline_activities, kpis) ==
    IF is_baseline_activities /\ DOMAIN kpis # {}
    THEN \A activity \in DOMAIN kpis :
            ~ TimeModified(AvgTimeOf(kpis[activity]), BaselineTimeOf(activity))
    ELSE TRUE

\* line 492
IsBaselineProcess(activities, kpis) ==
    IsBaselineActivities(activities)
    /\ HasBaselineKpis(IsBaselineActivities(activities), kpis)

\* lines 494-503: the KPI record the response is built from
PredictedKpis_AlwaysRaw(is_baseline_process, baseline_kpis_temp, predicted_kpis_raw) ==
    predicted_kpis_raw
PredictedKpis_Penalty(is_baseline_process, baseline_kpis_temp, predicted_kpis_raw) ==
    IF is_baseline_process THEN baseline_kpis_temp
    ELSE [ k \in DOMAIN predicted_kpis_raw |-> (predicted_kpis_raw[k] * 9) \div 10 ]
PredictedKpis(is_baseline_process, baseline_kpis_temp, predicted_kpis_raw) ==
    IF is_baseline_process THEN baseline_kpis_temp ELSE predicted_kpis_raw

-----------------------------------------------------------------------------
(* Scenario generator as simulate_process calls it *)

\* the parameters generate_scenario_entities declares, besides self
GenerateParameters == { "activities", "num_users", "num_items", "session_seed" }
\* the keyword arguments simulate_process passes after the activity list
GenerateCallKeywords ==
    { "num_users", "num_items", "session_seed", "entity_constraints" }

\* Python's argument binding: a keyword no parameter is named after is a TypeError
CallRaisesTypeError(keywords, parameters) == ~ (keywords \subseteq parameters)

\* the entity set drawn after random.seed(seed): a function of the seed
GenerateScenarioEntities(seed) ==
    [ users |-> << (seed % 7) + 1 >>, items |-> << (seed % 24) + 1 >>,
      suppliers |-> << (seed % 16) + 1 >> ]

\* hash('|'.join(sorted(activities))) % 2**31: a function of the sorted list
\* and of the interpreter's hash salt
RECURSIVE ListHash(_)
ListHash(s) == IF s = << >> THEN 7 ELSE (31 * ListHash(Tail(s)) + Head(s)) % 1009
ActivitySeed(activities) == (ListHash(Sorted(activities)) + hash_seed) % (MaxSeed + 1)

-----------------------------------------------------------------------------
(* Feature encoder: feature_extraction.py, and the training-time encoder of *)
(* train_model.py.  Vectors are sequences of integers; durations are whole  *)
(* hours and minutes; outcome indicators are in thousandths.                *)

ALL_EVENTS ==
    << "Receive Customer Order", "Validate Customer Order", "Perform Credit Check",
       "Approve Order", "Schedule Order Fulfillment", "Generate Pick List",
       "Pack Items", "Generate Shipping Label", "Ship Order", "Generate Invoice",
       "Receive Payment", "Close Order", "Cancel Order" >>

MatrixSide == 13
FREQ_MATRIX_DIM == MatrixSide * MatrixSide
DURATION_MATRIX_DIM == MatrixSide * MatrixSide
USER_VECTOR_DIM == 7
NumItems == 24
ITEMS_MATRIX_DIM == NumItems * 2
SUPPLIER_VECTOR_DIM == 16
TOTAL_FEATURE_DIM ==
    FREQ_MATRIX_DIM + DURATION_MATRIX_DIM + USER_VECTOR_DIM + ITEMS_MATRIX_DIM
        + SUPPLIER_VECTOR_DIM

\* np.zeros(n)
Zeros(n) == [ i \in 1..n |-> 0 ]

\* matrix.flatten(): the cells as one vector
Flatten(matrix) == [ k \in DOMAIN matrix |-> matrix[k] ]

\* event_to_idx: the catalog position of a name (1-based), and whether it has one
InCatalog(name) == \E i \in DOMAIN ALL_EVENTS : ALL_EVENTS[i] = name
EventToIdx(name) == CHOOSE i \in DOMAIN ALL_EVENTS : ALL_EVENTS[i] = name

\* the place of matrix[from_idx, to_idx] in matrix.flatten()
CellIndex(from_idx, to_idx) == (from_idx - 1) * MatrixSide + to_idx

\* dict.get(key, default) for an optional field
Get(field, default) == IF field = None THEN default ELSE field[1]

\* build_transition_matrix_frequency: the loop over the edges from edge i on
RECURSIVE FrequencyLoop(_, _, _)
FrequencyLoop(edges, i, matrix) ==
    IF i > Len(edges) THEN matrix
    ELSE LET from_activity == edges[i].from
             to_activity == edges[i].to
         IN  FrequencyLoop(edges, i + 1,
                IF InCatalog(from_activity) /\ InCatalog(to_activity)
                THEN [ matrix EXCEPT
                         ![CellIndex(EventToIdx(from_activity), EventToIdx(to_activity))] = @ + 1 ]
                ELSE matrix)
RECURSIVE FrequencyLoop_ClampUnknown(_, _, _)
FrequencyLoop_ClampUnknown(edges, i, matrix) ==
    IF i > Len(edges) THEN matrix
    ELSE LET from_idx == IF InCatalog(edges[i].from) THEN EventToIdx(edges[i].from)
                         ELSE MatrixSide
             to_idx == IF InCatalog(edges[i].to) THEN EventToIdx(edges[i].to)
                       ELSE MatrixSide
         IN  FrequencyLoop_ClampUnknown(edges, i + 1,
                [ matrix EXCEPT ![CellIndex(from_idx, to_idx)] = @ + 1 ])
BuildTransitionMatrixFrequency_ClampUnknown(activities, edges) ==
    Flatten(FrequencyLoop_ClampUnknown(edges, 1, Zeros(FREQ_MATRIX_DIM)))
BuildTransitionMatrixFrequency(activities, edges) ==
    Flatten(FrequencyLoop(edges, 1, Zeros(FREQ_MATRIX_DIM)))

\* line 103: duration_hours, or avgDays * 24 when that is missing or zero
DurationHours(edge) ==
    LET duration_hours == Get(edge.duration_hours, 0)
        from_days == Get(edge.avgDays, 0) * 24
    IN  IF duration_hours # 0 THEN duration_hours
        ELSE IF from_days # 0 THEN from_days
        ELSE 0

\* build_transition_matrix_duration: the loop over the edges from edge i on
RECURSIVE DurationLoop(_, _, _)
DurationLoop(edges, i, matrix) ==
    IF i > Len(edges) THEN matrix
    ELSE LET from_activity == edges[i].from
             to_activity == edges[i].to
             duration_minutes == DurationHours(edges[i]) * 60
         IN  DurationLoop(edges, i + 1,
                IF InCatalog(from_activity) /\ InCatalog(to_activity)
                THEN [ matrix EXCEPT
                         ![CellIndex(EventToIdx(from_activity), EventToIdx(to_activity))] =
                             duration_minutes ]
                ELSE matrix)
RECURSIVE DurationLoop_Sum(_, _, _)
DurationLoop_Sum(edges, i, matrix) ==
    IF i > Len(edges) THEN matrix
    ELSE DurationLoop_Sum(edges, i + 1,
            IF InCatalog(edges[i].from) /\ InCatalog(edges[i].to)
            THEN [ matrix EXCEPT
                     ![CellIndex(EventToIdx(edges[i].from), EventToIdx(edges[i].to))] =
                         @ + DurationHours(edges[i]) * 60 ]
            ELSE matrix)
BuildTransitionMatrixDuration_Sum(activities, edges) ==
    Flatten(DurationLoop_Sum(edges, 1, Zeros(DURATION_MATRIX_DIM)))
BuildTransitionMatrixDuration(activities, edges) ==
    Flatten(DurationLoop(edges, 1, Zeros(DURATION_MATRIX_DIM)))

\* a formatted identifier such as 'U001': its letter and its number
FormatId(prefix, num) == << prefix, num >>
\* int(id[1:]) for an identifier that starts with the prefix, else 0
ParseId(id, prefix) == IF id[1] = prefix THEN id[2] ELSE 0

\* build_user_vector and build_supplier_vector: a binary vector of width n
BinaryVector(ids, prefix, n) ==
    [ k \in 1..n |-> IF \E j \in DOMAIN ids : ParseId(ids[j], prefix) = k THEN 1 ELSE 0 ]
BuildUserVector_PerUser(user_ids) == [ k \in DOMAIN user_ids |-> 1 ]
BuildUserVector(user_ids) == BinaryVector(user_ids, "U", USER_VECTOR_DIM)
BuildSupplierVector(supplier_ids) == BinaryVector(supplier_ids, "S", SUPPLIER_VECTOR_DIM)

\* build_items_matrix: quantity and line total of each item, flattened row
\* by row; a later entry of the same item overwrites an earlier one
RECURSIVE ItemsLoop(_, _, _)
ItemsLoop(items_data, i, matrix) ==
    IF i > Len(items_data) THEN matrix
    ELSE LET item_num == ParseId(items_data[i].item_id, "I")
         IN  ItemsLoop(items_data, i + 1,
                IF 1 <= item_num /\ item_num <= NumItems
                THEN [ matrix EXCEPT ![2 * item_num - 1] = items_data[i].quantity,
                                     ![2 * item_num] = items_data[i].line_total ]
                ELSE matrix)
BuildItemsMatrix(items_data) == Flatten(ItemsLoop(items_data, 1, Zeros(ITEMS_MATRIX_DIM)))

\* v[::2] and v[1::2], and their interleaving
EveryOther(v, first) == [ k \in 1..(Len(v) \div 2) |-> v[2 * (k - 1) + first] ]
Interleave(a, b) ==
    [ k \in 1..(Len(a) + Len(b)) |-> IF k % 2 = 1 THEN a[(k + 1) \div 2] ELSE b[k \div 2] ]

\* the six fitted scalers load_model_and_scalers reads, as train_model.py
\* fits them: each knows the width it was fitted on; the fitted parameters
\* are data, here one shift per bundle
ScalerWidths ==
    [ freq |-> FREQ_MATRIX_DIM, duration |-> DURATION_MATRIX_DIM,
      users |-> USER_VECTOR_DIM, items_qty |-> NumItems, items_amt |-> NumItems,
      suppliers |-> SUPPLIER_VECTOR_DIM ]
FittedScalers(shift) ==
    [ name \in DOMAIN ScalerWidths |->
        [ n_features_in |-> ScalerWidths[name], shift |-> shift ] ]

\* scaler.transform: raises on a width it was not fitted on
TransformRaises_Never(scaler, v) == FALSE
TransformRaises(scaler, v) == Len(v) # scaler.n_features_in
Transform(scaler, v) == [ k \in DOMAIN v |-> v[k] + scaler.shift ]

\* extract_features_from_scenario: the exception it raises ("" for none)
\* and the vector it returns
ExtractFeaturesFromScenario(activities, edges, users_involved, items_involved, suppliers_involved, scalers) ==
    LET freq_matrix == BuildTransitionMatrixFrequency(activities, edges)
        duration_matrix == BuildTransitionMatrixDuration(activities, edges)
        user_vector == BuildUserVector(users_involved)
        items_matrix == BuildItemsMatrix(items_involved)
        supplier_vector == BuildSupplierVector(suppliers_involved)
        items_qty == EveryOther(items_matrix, 1)
        items_amt == EveryOther(items_matrix, 2)
        sc == scalers[1]
        feature_vector ==
            IF scalers # None
            THEN Transform(sc.freq, freq_matrix)
                 \o Transform(sc.duration, duration_matrix)
                 \o Transform(sc.users, user_vector)
                 \o Interleave(Transform(sc.items_qty, items_qty),
                               Transform(sc.items_amt, items_amt))
                 \o Transform(sc.suppliers, supplier_vector)
            ELSE freq_matrix \o duration_matrix \o user_vector \o items_matrix
                 \o supplier_vector
    IN  IF scalers # None /\
           ( \/ TransformRaises(sc.freq, freq_matrix)
             \/ TransformRaises(sc.duration, duration_matrix)
             \/ TransformRaises(sc.users, user_vector)
             \/ TransformRaises(sc.items_qty, items_qty)
             \/ TransformRaises(sc.items_amt, items_amt)
             \/ TransformRaises(sc.suppliers, supplier_vector) )
        THEN [ raised |-> "ValueError", vector |-> None ]
        ELSE IF Len(feature_vector) # TOTAL_FEATURE_DIM
        THEN [ raised |-> "AssertionError", vector |-> None ]
        ELSE [ raised |-> "", vector |-> Some(feature_vector) ]

\* extract_features_for_order of train_model.py, for an order given by its
\* event sequence (names and minutes to the next event) and its entities.
\* The eight outcome indicators are in thousandths.
RECURSIVE OrderFrequencyLoop(_, _, _)
OrderFrequencyLoop(events, i, matrix) ==
    IF i > Len(events) - 1 THEN matrix
    ELSE OrderFrequencyLoop(events, i + 1,
            IF InCatalog(events[i].event_name) /\ InCatalog(events[i + 1].event_name)
            THEN [ matrix EXCEPT
                     ![CellIndex(EventToIdx(events[i].event_name),
                                 EventToIdx(events[i + 1].event_name))] = @ + 1 ]
            ELSE matrix)
RECURSIVE OrderDurationLoop(_, _, _)
OrderDurationLoop(events, i, matrix) ==
    IF i > Len(events) - 1 THEN matrix
    ELSE OrderDurationLoop(events, i + 1,
            IF InCatalog(events[i].event_name) /\ InCatalog(events[i + 1].event_name)
            THEN [ matrix EXCEPT
                     ![CellIndex(EventToIdx(events[i].event_name),
                                 EventToIdx(events[i + 1].event_name))] =
                         events[i].duration_minutes ]
            ELSE matrix)

\* the baseline list of extract_features_for_order has ten activities
OutcomeBaselineLen == 10
Min(a, b) == IF a < b THEN a ELSE b
Max(a, b) == IF a < b THEN b ELSE a
FirstIndex(s, x) == CHOOSE i \in DOMAIN s : s[i] = x /\ \A j \in 1..(i - 1) : s[j] # x
Indicator(b) == IF b THEN 1000 ELSE 0
OutcomeFeatures(activities) ==
    LET activity_set == Range(activities)
        has_rejection == "Reject Order" \in activity_set
    IN  << Indicator(has_rejection),
           Indicator("Process Return Request" \in activity_set),
           Indicator("Cancel Order" \in activity_set),
           Indicator("Generate Invoice" \in activity_set),
           Min((Len(activities) * 1000) \div OutcomeBaselineLen, 2000),
           IF has_rejection
           THEN ((FirstIndex(activities, "Reject Order") - 1) * 1000)
                    \div Max(Len(activities), 1)
           ELSE 0,
           Indicator("Ship Order" \in activity_set /\ "Generate Invoice" \in activity_set),
           Indicator("Apply Discount" \in activity_set) >>

ExtractFeaturesForOrder(events, user_ids, items, supplier_ids) ==
    LET activities == [ i \in DOMAIN events |-> events[i].event_name ]
    IN  Flatten(OrderFrequencyLoop(events, 1, Zeros(FREQ_MATRIX_DIM)))
        \o Flatten(OrderDurationLoop(events, 1, Zeros(DURATION_MATRIX_DIM)))
        \o BinaryVector(user_ids, "U", USER_VECTOR_DIM)
        \o Flatten(ItemsLoop(items, 1, Zeros(ITEMS_MATRIX_DIM)))
        \o BinaryVector(supplier_ids, "S", SUPPLIER_VECTOR_DIM)
        \o OutcomeFeatures(activities)

-----------------------------------------------------------------------------
(* Scenario generator: scenario_generator.py.  Prices and amounts are in     *)
(* cents.                                                                    *)

Categories == << "Electronics", "Office Supplies", "Furniture", "Others" >>
CategoryIndex(category) == CHOOSE c \in DOMAIN Categories : Categories[c] = category

\* CATEGORY_SUPPLIER_MAP: four suppliers per category, 1-4, 5-8, 9-12, 13-16
CATEGORY_SUPPLIER_MAP ==
    [ category \in Range(Categories) |->
        [ k \in 1..4 |-> 4 * (CategoryIndex(category) - 1) + k ] ]

\* a value of an item_id column that is an integer, not a formatted string
IntId(num) == << "int", num >>

\* the category of item number n in items.csv and in the defaults: six
\* items of each category
ItemCategory(n) == Categories[((n - 1) \div 6) + 1]

\* items_df as pd.read_csv reads items.csv: item_id is 'I001' .. 'I024'
LoadedItems ==
    [ n \in 1..NumItems |->
        [ item_id |-> FormatId("I", n), category |-> ItemCategory(n),
          unit_price |-> 1000 + 100 * n ] ]

\* items_df of the defaults (lines 62-67): item_id is range(1, 25)
DefaultItems ==
    [ n \in 1..NumItems |->
        [ item_id |-> IntId(n), category |-> ItemCategory(n),
          unit_price |-> 1000 + 100 * n ] ]

\* the three files _load_data reads
ReferenceFiles == { "users.csv", "items.csv", "suppliers.csv" }

\* ScenarioGenerator(data_dir): __init__ and _load_data.  A file that cannot
\* be read sends all three tables to the defaults.
LoadData(d) ==
    IF \E f \in ReferenceFiles : d.data[f] = None
    THEN [ items_df |-> DefaultItems, defaults |-> TRUE ]
    ELSE [ items_df |-> LoadedItems, defaults |-> FALSE ]

\* the random module after random.seed(seed), whatever its state was
SeedRandom_KeepState(state, seed) ==
    IF state = None THEN Some([ seed |-> seed, draws |-> 0 ]) ELSE state
SeedRandom(state, seed) == Some([ seed |-> seed, draws |-> 0 ])

\* the number a seeded generator gives next: a function of its state
Draw(state) == 7 * state[1].seed + 3 * state[1].draws + 1

\* random.sample(range(1, n + 1), k) on a seeded generator: k different
\* numbers of 1..n, and the state it leaves
RandomSample(state, n, k) ==
    [ ret |-> [ j \in 1..k |-> ((Draw(state) + j - 1) % n) + 1 ],
      state |-> Some([ state[1] EXCEPT !.draws = @ + 1 ]) ]

\* hash(str): a function of the string and of the salt the interpreter drew
\* when it started (hash randomisation)
StrHash(salt, parts) == 5 * salt + 3 * parts[1] + parts[2] + 1

\* line 125: the rows of items_df whose item_id equals the id
ItemRows(items_df, item_id) ==
    SelectSeq(items_df, LAMBDA row : row.item_id = item_id)

\* lines 123-140 for one item id: the row looked up and the item dict
ItemDict(items_df, salt, item_id) ==
    LET item_row == ItemRows(items_df, item_id)[1]
        quantity == 3 + (StrHash(salt, << item_id[2], 0 >>) % 3)
    IN  [ item_id |-> item_id, category |-> item_row.category,
          quantity |-> quantity, unit_price |-> item_row.unit_price,
          line_total |-> quantity * item_row.unit_price ]

\* lines 143-151 for one item dict: the supplier selected for it
SelectedSupplier(salt, item) ==
    LET possible_suppliers == CATEGORY_SUPPLIER_MAP[item.category]
        supplier_idx == StrHash(salt, << item.item_id[2], CategoryIndex(item.category) >>)
                            % Len(possible_suppliers)
    IN  possible_suppliers[supplier_idx + 1]

\* sorted(set): the numbers of a set in ascending order
RECURSIVE SortedSet(_)
SortedSet(S) ==
    IF S = {} THEN << >>
    ELSE LET least == CHOOSE x \in S : \A y \in S : x <= y
         IN  << least >> \o SortedSet(S \ { least })

RECURSIVE Sum(_)
Sum(s) == IF s = << >> THEN 0 ELSE Head(s) + Sum(Tail(s))

\* generate_scenario_entities(activities, num_users, num_items, session_seed)
\* of generator g: the exception it raises ("" for none), the tuple it
\* returns, the seed it used and the state it leaves the random module in
GenerateEntitiesOf(g, state, salt, activities, num_users, num_items, session_seed) ==
    LET seed == IF session_seed # None THEN session_seed[1] ELSE ActivitySeed(activities)
        seeded == SeedRandom(state, seed)
        users == RandomSample(seeded, USER_VECTOR_DIM,
                              Min(Get(num_users, 3), USER_VECTOR_DIM))
        user_ids == [ j \in DOMAIN users.ret |-> FormatId("U", users.ret[j]) ]
        items == RandomSample(users.state, NumItems,
                              Min(Get(num_items, 5), NumItems))
        selected_item_ids == [ j \in DOMAIN items.ret |-> FormatId("I", items.ret[j]) ]
        missing == \E j \in DOMAIN selected_item_ids :
                      ItemRows(g.items_df, selected_item_ids[j]) = << >>
        items_data == [ j \in DOMAIN selected_item_ids |->
                          ItemDict(g.items_df, salt, selected_item_ids[j]) ]
        supplier_nums == { SelectedSupplier(salt, items_data[j]) : j \in DOMAIN items_data }
        supplier_ids == [ j \in DOMAIN SortedSet(supplier_nums) |->
                            FormatId("S", SortedSet(supplier_nums)[j]) ]
        order_value == Sum([ j \in DOMAIN items_data |-> items_data[j].line_total ])
    IN  IF missing
        THEN [ raised |-> "IndexError", ret |-> None, seed |-> seed, state |-> items.state ]
        ELSE [ raised |-> "",
               ret |-> Some([ users |-> user_ids, items |-> items_data,
                              suppliers |-> supplier_ids, order_value |-> order_value ]),
               seed |-> seed, state |-> items.state ]

\* random.randint(0, 2**31 - 1) of create_session on a seeded generator
RandInt(state) ==
    [ ret |-> Draw(state) % (MaxSeed + 1),
      state |-> Some([ state[1] EXCEPT !.draws = @ + 1 ]) ]

\* random.randint(0, 2**31 - 1) gives seed: anything while the random module
\* runs on the interpreter's entropy, the next number of the generator once
\* random.seed has been called
SeedDrawn(seed) == random_state # None => seed = RandInt(random_state).ret
\* the random module after the draws of an operation that drew or did not
RandomAfter(drew) ==
    IF drew /\ random_state # None THEN RandInt(random_state).state ELSE random_state

-----------------------------------------------------------------------------
(* /api/simulate: main.py, simulate_process *)

\* the body of a response and the facts about how it was produced
Response(status, error, path, kpis, baseline, confidence, ents, invoked, short, raw) ==
    [ status |-> status, error |-> error, path |-> path, kpis |-> kpis,
      baseline |-> baseline, confidence |-> confidence, entities |-> ents,
      predict_invoked |-> invoked, short_circuit |-> short, raw |-> raw ]

\* lines 586-589: any exception becomes an HTTP 500
ErrorResponse(error, invoked) ==
    Response("error", error, "ml", None, None, 0, None, invoked, FALSE, None)

\* lines 560-584: the degraded answer, baseline KPIs in both halves
FallbackResponse ==
    Response("ok", "", "fallback", Some(BaselineKpis), Some(BaselineKpis),
             FallbackConfidence, None, FALSE, FALSE, None)

\* lines 448-558: steps 2-9, from the entities to the response.  Step 3
\* yields a vector of width TOTAL_FEATURE_DIM (the assert of
\* extract_features_from_scenario), which step 4 hands to predict.
Pipeline_RegenerateEntities(req, heads, ents) ==
    LET predicted_kpis_raw == Predict(heads)
        is_baseline_process == IsBaselineProcess(req.activities, req.kpis)
    IN  Response("ok", "", "ml",
                 Some(PredictedKpis(is_baseline_process, BaselineKpis, predicted_kpis_raw)),
                 Some(BaselineKpis), MlConfidence,
                 Some(GenerateScenarioEntities(ActivitySeed(req.activities))),
                 TRUE, is_baseline_process, Some(predicted_kpis_raw))
Pipeline(req, heads, ents) ==
    LET prediction == PredictOf(manager[1], TOTAL_FEATURE_DIM, heads)
        predicted_kpis_raw == prediction.ret[1]
        is_baseline_process == IsBaselineProcess(req.activities, req.kpis)
        predicted_kpis ==
            PredictedKpis(is_baseline_process, BaselineKpis, predicted_kpis_raw)
    IN  IF prediction.raised # ""
        THEN ErrorResponse("ValueError", TRUE)
        ELSE Response("ok", "", "ml", Some(predicted_kpis), Some(BaselineKpis),
                      MlConfidence, Some(ents), TRUE, is_baseline_process,
                      Some(predicted_kpis_raw))

\* lines 413-416: the cached entities of the request's session
StoredEntities(ss, sid) ==
    IF sid # NoSession THEN GetEntitiesOf(ss, sid) ELSE None

\* simulate_process on the ML path: the store it leaves, the identifier
\* counter, and the response.  newSeed is what randint gives if
\* get_session_seed has to create a session; blocked marks the calls the
\* bounds of the model leave out.
SimulateOutcome(ss, nid, req, heads, newSeed, t) ==
    LET sid == req.session_id
        stored_entities == StoredEntities(ss, sid)
        lookup ==
            IF sid # NoSession
            THEN SessionSeedLookup(ss, sid, nid, newSeed, t)
            ELSE [ store |-> ss, seed |-> -1, raised |-> FALSE, created |-> FALSE ]
        nid1 == IF lookup.created THEN nid + 1 ELSE nid
        entity_constraints ==
            IF sid # NoSession THEN GetEntityConstraintsOf(ss, sid) ELSE None
        seed == IF sid # NoSession THEN lookup.seed ELSE ActivitySeed(req.activities)
        generated == GenerateScenarioEntities(seed)
        blocked ==
            /\ sid # NoSession
            /\ \/ NeedsNewSession(ss, sid) /\ nid > MaxSessions
               \/ ~ NeedsNewSession(ss, sid) /\ ss[sid].request_count >= MaxRequestCount
    IN  IF stored_entities # None
        THEN [ store |-> ss, nextId |-> nid, blocked |-> FALSE,
               resp |-> Pipeline(req, heads, stored_entities[1]) ]
        ELSE IF blocked
        THEN [ store |-> ss, nextId |-> nid, blocked |-> TRUE,
               resp |-> ErrorResponse("", FALSE) ]
        ELSE IF lookup.raised
        THEN [ store |-> lookup.store, nextId |-> nid1, blocked |-> FALSE,
               resp |-> ErrorResponse("KeyError", FALSE) ]
        ELSE IF CallRaisesTypeError(GenerateCallKeywords, GenerateParameters)
        THEN [ store |-> lookup.store, nextId |-> nid1, blocked |-> FALSE,
               resp |-> ErrorResponse("TypeError", FALSE) ]
        ELSE [ store |-> IF sid # NoSession
                         THEN StoreEntitiesIn(lookup.store, sid, generated)
                         ELSE lookup.store,
               nextId |-> nid1, blocked |-> FALSE,
               resp |-> Pipeline(req, heads, generated) ]

\* the record kept of an operation, with the time it ran at
Operation(op, arg, ret, ents, raised, req, resp) ==
    [ op |-> op, arg |-> arg, ret |-> ret, ents |-> ents, raised |-> raised,
      req |-> req, resp |-> resp, at |-> now ]
StoreOp(op, arg, ret, ents, raised) ==
    Operation(op, arg, ret, ents, raised, None, None)

\* history: an answer built from entity set ents was given for session sid
ServedAfter(sv, sid, ents) ==
    IF sv # None /\ sv[1].sid = sid
    THEN Some([ sid |-> sid, ents |-> ents, n |-> IF sv[1].n < 2 THEN sv[1].n + 1 ELSE 2 ])
    ELSE Some([ sid |-> sid, ents |-> ents, n |-> 1 ])

\* history: the scenario of the sessions in ids was written or destroyed
ServedWithout(sv, ids) ==
    IF sv # None /\ sv[1].sid \in ids THEN None ELSE sv

\* simulate_process, the whole handler, for one request
SimulateProcess(req, heads) ==
    IF ~ (use_ml_predictions /\ manager # None /\ scenario_generator # None)
    THEN /\ last' = Operation("simulate", req.session_id, -1, None, FALSE,
                              Some(req), Some(FallbackResponse))
         /\ UNCHANGED << sessions, nextId, served, manager, random_state >>
    ELSE \E newSeed \in Seeds :
            LET out == SimulateOutcome(sessions, nextId, req, heads, newSeed, now)
            IN  /\ ~ out.blocked
                /\ SeedDrawn(newSeed)
                /\ random_state' = RandomAfter(out.nextId # nextId)
                /\ sessions' = out.store
                /\ nextId' = out.nextId
                /\ manager' = IF out.resp.status = "ok"
                              THEN Some(GetBaselineKpis(manager[1]))
                              ELSE manager
                /\ served' = IF out.resp.status = "ok" /\ req.session_id # NoSession
                             THEN ServedAfter(served, req.session_id,
                                              out.resp.entities[1])
                             ELSE served
                /\ last' = Operation("simulate", req.session_id, -1, None,
                                     out.resp.status = "error",
                                     Some(req), Some(out.resp))

-----------------------------------------------------------------------------
(* Requests *)

EmptyKpis == << >>
KpiEntry(t) == [ avg_time |-> t ]

\* a request body: the client's token, the activity list, the kpis map
Request(sid, activities, kpis) ==
    [ session_id |-> sid, activities |-> activities, kpis |-> kpis ]

\* the canonical timing parameters: every baseline activity at its baseline time
CanonicalKpis ==
    [ a \in Range(BaselineActivities) |-> KpiEntry(Some(BaselineKpisData[a].avg_time)) ]

\* the request bodies of the session-level specification
SmallBodies ==
    { << BaselineActivities, EmptyKpis >>,
      << Tail(BaselineActivities), EmptyKpis >> }

\* every activity list of at most MaxActs activities of the catalog
RECURSIVE ListsUpTo(_)
ListsUpTo(n) ==
    IF n = 0 THEN { << >> }
    ELSE LET shorter == ListsUpTo(n - 1)
         IN  shorter \cup { Append(l, a) : l \in { x \in shorter : Len(x) = n - 1 },
                                           a \in 1..NumActivities }
ActivityLists == ListsUpTo(MaxActs)

\* the activities a kpis map speaks about, and what it can say of one: no
\* avg_time, the reference time, the reference time plus the tolerance, or more
KpiKeys == Range(BaselineActivities) \cup { NonBaselineActivity }
EntriesFor(a) ==
    { KpiEntry(None) } \cup
    { KpiEntry(Some(BaselineTimeOf(a) + d)) : d \in { 0, ToleranceTenths, ToleranceTenths + 1 } }
AllEntries == UNION { EntriesFor(a) : a \in KpiKeys }
KpiMaps ==
    UNION { { f \in [ S -> AllEntries ] : \A a \in S : f[a] \in EntriesFor(a) } :
            S \in SUBSET KpiKeys }

-----------------------------------------------------------------------------
(* The directories on disk *)

\* the data files: every file of FilesToHash except those in missing, each
\* FileLen zero bytes long
InitialData(missing) ==
    [ f \in Range(FilesToHash) |->
        IF f \in missing THEN None ELSE Some([ i \in 1..FileLen |-> 0 ]) ]

\* the sets of missing data files considered: none, one that startup_event
\* requires, one that only the fingerprint reads
MissingChoices == { {}, { "users.csv" }, { "order_items.csv" } }

\* the model artifacts that can lie in trained_models
ModelFiles == { [ input_dim |-> FEATURE_DIM ], [ input_dim |-> BuildModelInputDim ] }

\* a disk: data files, model artifact, fingerprint file, scaler files, and
\* the number of changes made to the data files since
Disk(data, model_file, hash_file, scaler_files) ==
    [ data |-> data, model_file |-> model_file, hash_file |-> hash_file,
      scaler_files |-> scaler_files, edits |-> 0 ]

\* the disk right after save_model_and_scalers saved a bundle for the data
\* (train_model.py:575-576 computes the fingerprint it stores)
TrainedDisk(model_file) ==
    Disk(InitialData({}), Some(model_file),
         Some(CalculateDatasetHash(InitialData({}))), TRUE)

\* the disks a run can start from
Disks ==
    { Disk(InitialData(missing), mf, hf, sf) :
        missing \in MissingChoices,
        mf \in { None } \cup { Some(m) : m \in ModelFiles },
        hf \in { None, Some(CalculateDatasetHash(InitialData({}))) },
        sf \in BOOLEAN }

\* file f with byte i replaced by b
WithByte(data, f, i, b) ==
    [ data EXCEPT ![f] = Some([ data[f][1] EXCEPT ![i] = b ]) ]

-----------------------------------------------------------------------------
(* Calls of the encoder *)

\* an edge of a request graph
Edge(from, to, duration_hours, avgDays) ==
    [ from |-> from, to |-> to, duration_hours |-> duration_hours, avgDays |-> avgDays ]

\* two catalog names and a name the catalog does not have
NameA == ALL_EVENTS[1]
NameB == ALL_EVENTS[2]
UnknownName == "Reject Order"

\* the edges of the bounded call space: A-B edges of different durations
\* (in hours, or in days), the reverse edge, and edges with an unknown end
EdgeChoices ==
    { Edge(NameA, NameB, Some(1), None),
      Edge(NameA, NameB, Some(2), None),
      Edge(NameA, NameB, None, Some(1)),
      Edge(NameB, NameA, Some(1), None),
      Edge(UnknownName, NameB, Some(1), None),
      Edge(NameA, UnknownName, Some(2), None) }

RECURSIVE EdgeListsUpTo(_)
EdgeListsUpTo(n) ==
    IF n = 0 THEN { << >> }
    ELSE LET shorter == EdgeListsUpTo(n - 1)
         IN  shorter \cup { Append(l, e) : l \in { x \in shorter : Len(x) = n - 1 },
                                            e \in EdgeChoices }
EdgeLists == EdgeListsUpTo(MaxEdges)

\* activity lists of 0, 1, 2, 13 and LongList activities
EncoderActivityLists ==
    { << >>, << NameA >>, << NameA, UnknownName >>, ALL_EVENTS,
      [ i \in 1..LongList |-> ALL_EVENTS[(i % MatrixSide) + 1] ] }

\* no entities, or entities with identifiers inside and outside the catalogs
EncoderEntityChoices ==
    { [ users |-> << >>, items |-> << >>, suppliers |-> << >> ],
      [ users |-> << FormatId("U", 1), FormatId("U", USER_VECTOR_DIM + 1) >>,
        items |-> << [ item_id |-> FormatId("I", 2), quantity |-> 3, line_total |-> 50 ],
                     [ item_id |-> FormatId("I", NumItems + 1), quantity |-> 4,
                       line_total |-> 70 ] >>,
        suppliers |-> << FormatId("S", SUPPLIER_VECTOR_DIM) >> ] }

\* no scalers, or a fitted bundle
ScalerChoices == { None, Some(FittedScalers(0)), Some(FittedScalers(-3)) }

\* a bundle whose scaler `name` was fitted on a width that is off by delta
MisfittedScalers(name, delta) ==
    [ FittedScalers(-3) EXCEPT ![name].n_features_in = @ + delta ]
\* the bundles load_model_and_scalers can find next to a model: fitted on
\* the widths of the encoder, or with one scaler of another width
PersistedScalerChoices ==
    { Some(FittedScalers(-3)) } \cup
    { Some(MisfittedScalers(name, delta)) : name \in DOMAIN ScalerWidths,
                                            delta \in { -1, 1 } }

EncoderCall(activities, edges, e, scalers) ==
    [ activities |-> activities, edges |-> edges, users |-> e.users,
      items |-> e.items, suppliers |-> e.suppliers, scalers |-> scalers ]

-----------------------------------------------------------------------------
(* Calls of the scenario generator *)

\* session_seed: none (the seed is derived from the activities) or a seed
GeneratorSeeds == { None } \cup { Some(seed) : seed \in Seeds }

\* num_users and num_items: the defaults, two of each, or no items at all
GeneratorCounts ==
    { [ num_users |-> None, num_items |-> None ],
      [ num_users |-> Some(2), num_items |-> Some(2) ],
      [ num_users |-> None, num_items |-> Some(0) ] }

\* the activity lists of the calls
GeneratorActivities == { BaselineActivities, Tail(BaselineActivities) }

\* the disks a generator is constructed on: all files there, or users.csv missing
GeneratorDisks ==
    { TrainedDisk([ input_dim |-> FEATURE_DIM ]),
      Disk(InitialData({ "users.csv" }), None, None, FALSE) }

-----------------------------------------------------------------------------
(* Actions *)

\* one more operation of the run
Counted == ops < MaxOps /\ ops' = ops + 1

\* create_session, also POST /api/session/start
CreateSession ==
    /\ Counted
    /\ UNCHANGED << disk, manager, phase, scenario_generator, hash_seed, generator_calls >>
    /\ nextId <= MaxSessions
    /\ \E seed \in Seeds :
          /\ SeedDrawn(seed)
          /\ sessions' = CreateSessionIn(sessions, nextId, seed, now)
    /\ random_state' = RandomAfter(TRUE)
    /\ nextId' = nextId + 1
    /\ last' = StoreOp("create_session", NoSession, nextId, None, FALSE)
    /\ UNCHANGED << now, reaped, use_ml_predictions, pending, served >>

\* get_session_seed(session_id)
GetSessionSeed ==
    /\ Counted
    /\ UNCHANGED << disk, manager, phase, scenario_generator, hash_seed, generator_calls >>
    /\ \E sid \in Tokens, newSeed \in Seeds :
           LET r == SessionSeedLookup(sessions, sid, nextId, newSeed, now)
           IN  /\ SeedDrawn(newSeed)
               /\ random_state' = RandomAfter(r.created)
               /\ IF NeedsNewSession(sessions, sid)
                  THEN nextId <= MaxSessions
                  ELSE sessions[sid].request_count < MaxRequestCount
               /\ sessions' = r.store
               /\ nextId' = IF r.created THEN nextId + 1 ELSE nextId
               /\ last' = StoreOp("get_session_seed", sid, r.seed, None, r.raised)
               /\ UNCHANGED << now, reaped, use_ml_predictions, pending, served >>

\* reset_session(session_id), also POST /api/session/reset
ResetSession ==
    /\ Counted
    /\ UNCHANGED << disk, manager, phase, scenario_generator, hash_seed, generator_calls >>
    /\ \E sid \in Tokens \ { NoSession }, newSeed \in Seeds :
           /\ SeedDrawn(newSeed)
           /\ random_state' = RandomAfter(TRUE)
           /\ IF sid \in DOMAIN sessions
              THEN /\ sessions' = [ sessions EXCEPT
                                      ![sid] = ResetSessionDict(@, newSeed, now) ]
                   /\ nextId' = nextId
                   /\ last' = StoreOp("reset_session", sid, sid, None, FALSE)
              ELSE /\ nextId <= MaxSessions
                   /\ sessions' = CreateSessionIn(sessions, nextId, newSeed, now)
                   /\ nextId' = nextId + 1
                   /\ last' = StoreOp("reset_session", sid, nextId, None, FALSE)
           /\ served' = ServedWithout(served, { sid })
           /\ UNCHANGED << now, reaped, use_ml_predictions, pending >>

\* delete_session(session_id)
DeleteSession ==
    /\ Counted
    /\ UNCHANGED << disk, manager, phase, scenario_generator, random_state, hash_seed, generator_calls >>
    /\ \E sid \in Tokens :
           /\ sessions' = Without(sessions, { sid })
           /\ last' = StoreOp("delete_session", sid, -1, None, FALSE)
           /\ served' = ServedWithout(served, { sid })
           /\ UNCHANGED << nextId, now, reaped, use_ml_predictions, pending >>

\* cleanup_expired_sessions()
CleanupExpiredSessions ==
    /\ Counted
    /\ UNCHANGED << disk, manager, phase, scenario_generator, random_state, hash_seed, generator_calls >>
    /\ LET expired == Expired(sessions, now)
       IN  /\ sessions' = Without(sessions, expired)
           /\ reaped' = reaped \cup expired
           /\ last' = StoreOp("cleanup_expired_sessions", NoSession, -1, None, FALSE)
           /\ served' = ServedWithout(served, expired)
           /\ UNCHANGED << nextId, now, use_ml_predictions, pending >>

\* store_entities(session_id, users, items, suppliers)
StoreEntities ==
    /\ Counted
    /\ UNCHANGED << disk, manager, phase, scenario_generator, random_state, hash_seed, generator_calls >>
    /\ \E sid \in Tokens, ents \in EntityChoices :
           /\ sessions' = StoreEntitiesIn(sessions, sid, ents)
           /\ last' = StoreOp("store_entities", sid, -1, None, FALSE)
           /\ served' = ServedWithout(served, { sid })
           /\ UNCHANGED << nextId, now, reaped, use_ml_predictions, pending >>

\* get_entities(session_id)
GetEntities ==
    /\ Counted
    /\ UNCHANGED << disk, manager, phase, scenario_generator, random_state, hash_seed, generator_calls >>
    /\ \E sid \in Tokens :
           /\ last' = StoreOp("get_entities", sid, -1, GetEntitiesOf(sessions, sid), FALSE)
           /\ UNCHANGED << sessions, nextId, now, reaped, use_ml_predictions,
                           pending, served >>

\* store_entity_constraints(session_id, constraints), as POST /api/parse-prompt
\* calls it for a first prompt that names entities
StoreEntityConstraints ==
    /\ Counted
    /\ UNCHANGED << disk, manager, phase, scenario_generator, random_state, hash_seed, generator_calls >>
    /\ \E sid \in Tokens \ { NoSession }, c \in ConstraintChoices :
           /\ sessions' = StoreEntityConstraintsIn(sessions, sid, c)
           /\ last' = StoreOp("store_entity_constraints", sid, -1, None, FALSE)
           /\ UNCHANGED << nextId, now, reaped, use_ml_predictions, pending, served >>

\* time passes
Tick ==
    /\ now < MaxTime
    /\ now' = now + TickStep
    /\ UNCHANGED << sessions, nextId, reaped, use_ml_predictions, pending,
                    served, last, ops, disk, manager, phase, scenario_generator,
                    random_state, hash_seed, generator_calls >>

\* POST /api/simulate
Simulate ==
    /\ Counted
    /\ UNCHANGED << disk, phase, scenario_generator, hash_seed, generator_calls >>
    /\ \E sid \in Tokens, body \in SmallBodies, heads \in HeadVectors :
          SimulateProcess(Request(sid, body[1], body[2]), heads)
    /\ UNCHANGED << now, reaped, use_ml_predictions, pending >>

\* POST /api/simulate for the request that was received
ServePending ==
    /\ Counted
    /\ UNCHANGED << disk, phase, scenario_generator, hash_seed, generator_calls >>
    /\ pending # None
    /\ \E heads \in HeadVectors : SimulateProcess(pending[1], heads)
    /\ pending' = None
    /\ UNCHANGED << now, reaped, use_ml_predictions >>

\* a training file is changed in one byte, before the service starts
EditTrainingFile ==
    /\ UNCHANGED << scenario_generator, random_state, hash_seed, generator_calls >>
    /\ phase = "offline"
    /\ disk.edits < MaxEdits
    /\ \E f \in Range(FilesToHash) :
          /\ disk.data[f] # None
          /\ \E i \in DOMAIN disk.data[f][1], b \in Bytes :
                /\ b # disk.data[f][1][i]
                /\ disk' = [ disk EXCEPT !.data = WithByte(disk.data, f, i, b),
                                         !.edits = @ + 1 ]
    /\ UNCHANGED << sessions, nextId, now, reaped, use_ml_predictions, pending,
                    served, last, ops, manager, phase >>

\* calculate_dataset_hash(data_dir)
CalculateHash ==
    /\ UNCHANGED << scenario_generator, random_state, hash_seed, generator_calls >>
    /\ ops < MaxOps /\ ops' = ops + 1
    /\ last' = Operation("calculate_dataset_hash", NoSession,
                         CalculateDatasetHash(disk.data), None, FALSE,
                         Some(disk.data), None)
    /\ UNCHANGED << sessions, nextId, now, reaped, use_ml_predictions, pending,
                    served, disk, manager, phase >>

\* ModelManager(backend_dir)
ConstructManager ==
    /\ UNCHANGED << scenario_generator, random_state, hash_seed, generator_calls >>
    /\ ops < MaxOps /\ ops' = ops + 1
    /\ phase = "offline"
    /\ manager' = Some(NewModelManager)
    /\ last' = StoreOp("ModelManager", NoSession, -1, None, FALSE)
    /\ UNCHANGED << sessions, nextId, now, reaped, use_ml_predictions, pending,
                    served, disk, phase >>

\* ModelManager.initialize(force_retrain), called on a manager that holds no
\* model (main.py:178-180 is the only call, on the manager just constructed)
Initialize ==
    /\ UNCHANGED << scenario_generator, random_state, hash_seed, generator_calls >>
    /\ ops < MaxOps /\ ops' = ops + 1
    /\ phase = "offline"
    /\ manager # None
    /\ manager[1].model = None
    /\ \E force_retrain \in BOOLEAN :
          LET r == InitializeManager(manager[1], disk, force_retrain)
          IN  /\ manager' = Some(r.manager)
              /\ last' = Operation("initialize", NoSession, -1, None, r.raised # "",
                                   Some([ force_retrain |-> force_retrain ]),
                                   Some([ raised |-> r.raised ]))
    /\ UNCHANGED << sessions, nextId, now, reaped, use_ml_predictions, pending,
                    served, disk, phase >>

\* ModelManager.predict(feature_vector), for the vector of either encoder
PredictCall ==
    /\ UNCHANGED << scenario_generator, random_state, hash_seed, generator_calls >>
    /\ ops < MaxOps /\ ops' = ops + 1
    /\ manager # None
    /\ \E dim \in { TOTAL_FEATURE_DIM, BuildModelInputDim }, heads \in HeadVectors :
          LET r == PredictOf(manager[1], dim, heads)
          IN  last' = Operation("predict", NoSession, r.ret, None, r.raised # "",
                                Some([ dim |-> dim, model |-> manager[1].model ]),
                                Some([ raised |-> r.raised ]))
    /\ UNCHANGED << sessions, nextId, now, reaped, use_ml_predictions, pending,
                    served, disk, manager, phase >>

\* startup_event, the whole handler, once
StartupEvent ==
    /\ UNCHANGED << random_state, hash_seed, generator_calls >>
    /\ ops < MaxOps /\ ops' = ops + 1
    /\ phase = "offline"
    /\ LET r == StartupOutcome(disk)
       IN  /\ manager' = r.manager
           /\ use_ml_predictions' = r.use_ml
           /\ scenario_generator' = IF r.generator THEN Some(LoadData(disk)) ELSE None
           /\ last' = Operation("startup_event", NoSession, -1, None, r.escaped # "",
                                Some([ initialize |-> InitializeManager(NewModelManager,
                                                                       disk, FALSE) ]),
                                Some([ raised |-> r.escaped ]))
    /\ phase' = "serving"
    /\ UNCHANGED << sessions, nextId, now, reaped, pending, served, disk >>

\* extract_features_from_scenario for the call that was prepared
EncodeScenario ==
    /\ UNCHANGED << scenario_generator, random_state, hash_seed, generator_calls >>
    /\ ops < MaxOps /\ ops' = ops + 1
    /\ pending # None
    /\ LET c == pending[1]
           r == ExtractFeaturesFromScenario(c.activities, c.edges, c.users,
                                            c.items, c.suppliers, c.scalers)
       IN  last' = Operation("extract_features_from_scenario", NoSession, -1, None,
                             r.raised # "", Some(c), Some(r))
    /\ pending' = None
    /\ UNCHANGED << sessions, nextId, now, reaped, use_ml_predictions, served,
                    disk, manager, phase >>

\* extract_features_for_order for the same process as an order: its events
\* in sequence, each lasting as long as the edge that leaves it
EncodeOrder ==
    /\ UNCHANGED << scenario_generator, random_state, hash_seed, generator_calls >>
    /\ ops < MaxOps /\ ops' = ops + 1
    /\ pending # None
    /\ LET c == pending[1]
           events == [ i \in DOMAIN c.activities |->
                         [ event_name |-> c.activities[i],
                           duration_minutes |->
                               IF i \in DOMAIN c.edges
                               THEN DurationHours(c.edges[i]) * 60 ELSE 0 ] ]
           v == ExtractFeaturesForOrder(events, c.users, c.items, c.suppliers)
       IN  last' = Operation("extract_features_for_order", NoSession, -1, None,
                             FALSE, Some(c), Some([ raised |-> "", vector |-> Some(v) ]))
    /\ pending' = None
    /\ UNCHANGED << sessions, nextId, now, reaped, use_ml_predictions, served,
                    disk, manager, phase >>

\* ScenarioGenerator(data_dir)
ConstructGenerator ==
    /\ ops < MaxOps /\ ops' = ops + 1
    /\ scenario_generator = None
    /\ scenario_generator' = Some(LoadData(disk))
    /\ last' = StoreOp("ScenarioGenerator", NoSession, -1, None, FALSE)
    /\ UNCHANGED << sessions, nextId, now, reaped, use_ml_predictions, pending,
                    served, disk, manager, phase, random_state, hash_seed,
                    generator_calls >>

\* scenario_generator.generate_scenario_entities(activities, num_users,
\* num_items, session_seed)
GenerateEntities ==
    /\ ops < MaxOps /\ ops' = ops + 1
    /\ scenario_generator # None
    /\ \E activities \in GeneratorActivities, counts \in GeneratorCounts,
          session_seed \in GeneratorSeeds :
          LET r == GenerateEntitiesOf(scenario_generator[1], random_state, hash_seed,
                                      activities, counts.num_users, counts.num_items,
                                      session_seed)
              call == [ seed |-> r.seed, num_users |-> counts.num_users,
                        num_items |-> counts.num_items, raised |-> r.raised,
                        ret |-> r.ret ]
          IN  /\ random_state' = r.state
              /\ generator_calls' = Append(generator_calls, call)
              /\ last' = Operation("generate_scenario_entities", NoSession, r.ret, None,
                                   r.raised # "",
                                   Some([ activities |-> activities,
                                          num_users |-> counts.num_users,
                                          num_items |-> counts.num_items,
                                          session_seed |-> session_seed ]),
                                   Some([ raised |-> r.raised ]))
    /\ UNCHANGED << sessions, nextId, now, reaped, use_ml_predictions, pending,
                    served, disk, manager, phase, scenario_generator, hash_seed >>

-----------------------------------------------------------------------------
(* Specifications *)

\* the service after a startup_event that enabled the ML path: an empty store
Init ==
    /\ sessions = << >>
    /\ nextId = 1
    /\ now = 0
    /\ reaped = {}
    /\ disk = TrainedDisk([ input_dim |-> FEATURE_DIM ])
    /\ manager = StartupOutcome(disk).manager
    /\ use_ml_predictions = StartupOutcome(disk).use_ml
    /\ scenario_generator = IF StartupOutcome(disk).generator
                            THEN Some(LoadData(disk)) ELSE None
    /\ random_state = None
    /\ hash_seed = 0
    /\ generator_calls = << >>
    /\ phase = "serving"
    /\ pending = None
    /\ served = None
    /\ last = StoreOp("startup", NoSession, -1, None, FALSE)
    /\ ops = 0

Next ==
    \/ CreateSession
    \/ GetSessionSeed
    \/ ResetSession
    \/ DeleteSession
    \/ CleanupExpiredSessions
    \/ StoreEntities
    \/ GetEntities
    \/ StoreEntityConstraints
    \/ Tick
    \/ Simulate

Spec == Init /\ [][Next]_vars

\* one request through the handler: startup enabled the ML path or not, the
\* client's session exists (with or without cached entities), and any
\* request body of the bounded request space has been received
InitPipeline ==
    /\ \E ents \in { None } \cup { Some(e) : e \in EntityChoices } :
          sessions = [ i \in { 1 } |-> [ NewSession(0, 0) EXCEPT !.entities = ents ] ]
    /\ nextId = 2
    /\ now = 0
    /\ reaped = {}
    /\ disk \in { TrainedDisk(m) : m \in ModelFiles }
                 \cup { Disk(InitialData({}), None, None, FALSE) }
    /\ manager = StartupOutcome(disk).manager
    /\ use_ml_predictions = StartupOutcome(disk).use_ml
    /\ scenario_generator = IF StartupOutcome(disk).generator
                            THEN Some(LoadData(disk)) ELSE None
    /\ random_state = None
    /\ hash_seed = 0
    /\ generator_calls = << >>
    /\ phase = "serving"
    /\ \E activities \in ActivityLists, kpis \in KpiMaps :
          pending = Some(Request(1, activities, kpis))
    /\ served = None
    /\ last = StoreOp("startup", NoSession, -1, None, FALSE)
    /\ ops = 0

NextPipeline == ServePending

SpecPipeline == InitPipeline /\ [][NextPipeline]_vars

\* the model life cycle: any of the disks, no manager yet, the service not
\* started
InitStartup ==
    /\ sessions = << >>
    /\ nextId = 1
    /\ now = 0
    /\ reaped = {}
    /\ use_ml_predictions = FALSE
    /\ pending = None
    /\ served = None
    /\ last = StoreOp("import", NoSession, -1, None, FALSE)
    /\ ops = 0
    /\ disk \in Disks
    /\ manager = None
    /\ phase = "offline"
    /\ scenario_generator = None
    /\ random_state = None
    /\ hash_seed = 0
    /\ generator_calls = << >>

NextStartup ==
    \/ EditTrainingFile
    \/ CalculateHash
    \/ ConstructManager
    \/ Initialize
    \/ PredictCall
    \/ StartupEvent
    \/ phase = "serving" /\ Simulate

SpecStartup == InitStartup /\ [][NextStartup]_vars

\* the encoders: one call of the bounded call space has been prepared
InitEncoder ==
    /\ sessions = << >>
    /\ nextId = 1
    /\ now = 0
    /\ reaped = {}
    /\ use_ml_predictions = FALSE
    /\ \E activities \in EncoderActivityLists, edges \in EdgeLists,
          e \in EncoderEntityChoices, scalers \in ScalerChoices :
          pending = Some(EncoderCall(activities, edges, e, scalers))
    /\ served = None
    /\ last = StoreOp("import", NoSession, -1, None, FALSE)
    /\ ops = 0
    /\ disk = TrainedDisk([ input_dim |-> BuildModelInputDim ])
    /\ manager = None
    /\ phase = "offline"
    /\ scenario_generator = None
    /\ random_state = None
    /\ hash_seed = 0
    /\ generator_calls = << >>

NextEncoder ==
    \/ EncodeScenario
    \/ EncodeOrder

SpecEncoder == InitEncoder /\ [][NextEncoder]_vars

\* the serving-time encoder with a persisted scaler bundle
InitScalers ==
    /\ sessions = << >>
    /\ nextId = 1
    /\ now = 0
    /\ reaped = {}
    /\ use_ml_predictions = FALSE
    /\ \E activities \in EncoderActivityLists, edges \in EdgeLists,
          e \in EncoderEntityChoices, scalers \in PersistedScalerChoices :
          pending = Some(EncoderCall(activities, edges, e, scalers))
    /\ served = None
    /\ last = StoreOp("import", NoSession, -1, None, FALSE)
    /\ ops = 0
    /\ disk = TrainedDisk([ input_dim |-> FEATURE_DIM ])
    /\ manager = None
    /\ phase = "offline"
    /\ scenario_generator = None
    /\ random_state = None
    /\ hash_seed = 0
    /\ generator_calls = << >>

NextScalers == EncodeScenario

SpecScalers == InitScalers /\ [][NextScalers]_vars

\* the scenario generator on its own: an interpreter has started and drawn
\* its hash salt; the generator is constructed, called, and sessions are
\* created in between (create_session draws from the same random module)
InitGenerator ==
    /\ sessions = << >>
    /\ nextId = 1
    /\ now = 0
    /\ reaped = {}
    /\ use_ml_predictions = FALSE
    /\ pending = None
    /\ served = None
    /\ last = StoreOp("import", NoSession, -1, None, FALSE)
    /\ ops = 0
    /\ disk \in GeneratorDisks
    /\ manager = None
    /\ phase = "offline"
    /\ scenario_generator = None
    /\ random_state = None
    /\ hash_seed \in 0..MaxHashSeed
    /\ generator_calls = << >>

NextGenerator ==
    \/ ConstructGenerator
    \/ GenerateEntities
    \/ CreateSession

SpecGenerator == InitGenerator /\ [][NextGenerator]_vars

-----------------------------------------------------------------------------
(* Properties *)

\* the step is the operation op on the token id
OpStep(op, id) == ops' = ops + 1 /\ last'.op = op /\ last'.arg = id

\* the last operation was a simulate request answered on the ML path
AnsweredByModelPath ==
    /\ last.op = "simulate"
    /\ last.resp[1].status = "ok"
    /\ last.resp[1].path = "ml"

\* how often activity a occurs in list s, and equality of two lists as multisets
Count(a, s) == Cardinality({ i \in DOMAIN s : s[i] = a })
SameMultiset(s, t) == \A a \in Range(s) \cup Range(t) : Count(a, s) = Count(a, t)

\* every avg_time the request supplies is within the tolerance of the
\* activity's reference time
SuppliedTimesWithinTolerance(kpis) ==
    \A a \in DOMAIN kpis :
        kpis[a].avg_time # None =>
            Abs(kpis[a].avg_time[1] - BaselineTimeOf(a)) <= ToleranceTenths

C2_ShortCircuitIff ==
    AnsweredByModelPath =>
        ( last.resp[1].short_circuit <=>
            ( /\ SameMultiset(last.req[1].activities, BaselineActivities)
              /\ SuppliedTimesWithinTolerance(last.req[1].kpis) ) )

\* C3: a short-circuited answer is given without predict having been
\* invoked for the request.
C3_NoPredictBeforeShortCircuit ==
    ( AnsweredByModelPath /\ last.resp[1].short_circuit )
    => ~ last.resp[1].predict_invoked

\* C4: the KPI fields of an answer that is not short-circuited are exactly
\* the record predict returned for one of the model's head outputs; nothing
\* is applied on top of it.
C4_RawPrediction ==
    ( AnsweredByModelPath /\ ~ last.resp[1].short_circuit )
    => /\ last.resp[1].kpis = last.resp[1].raw
       /\ \E heads \in HeadVectors : last.resp[1].kpis = Some(DenormalizeKpis(heads))

C4_Witness ==
    /\ AnsweredByModelPath
    /\ ~ last.resp[1].short_circuit
    /\ Len(last.req[1].activities) > Len(BaselineActivities)
    /\ last.resp[1].kpis = last.resp[1].raw
    /\ last.resp[1].kpis # last.resp[1].baseline

\* C5: after a request presented a token, the store holds a session under
\* that very token, and its seed is the one the request obtained.
C5_SessionUnderCallerToken ==
    ( last.op = "get_session_seed" /\ last.arg # NoSession )
    => /\ last.arg \in DOMAIN sessions
       /\ sessions[last.arg].seed = last.ret

\* C6: the seed of a session that stays in the store changes only in a
\* reset_session of it, and every get_session_seed of it returns that seed.
C6_SeedStable ==
    [][ \A id \in DOMAIN sessions \cap DOMAIN sessions' :
          /\ ~ OpStep("reset_session", id)
                => sessions'[id].seed = sessions[id].seed
          /\ OpStep("get_session_seed", id)
                => last'.ret = sessions[id].seed ]_vars

C6_Witness ==
    /\ last.op = "get_session_seed"
    /\ last.arg \in DOMAIN sessions
    /\ sessions[last.arg].request_count = 2
    /\ sessions[last.arg].entities # None
    /\ last.ret = sessions[last.arg].seed

\* C7: the entities stored for a session that stays in the store are what
\* get_entities returns; they change only in a store_entities or a
\* reset_session of that session, become empty only in a reset_session of
\* it, and no simulate request touches them.
C7_EntitiesKept ==
    [][ \A id \in DOMAIN sessions \cap DOMAIN sessions' :
          sessions[id].entities # None =>
            /\ sessions'[id].entities # sessions[id].entities
                  => OpStep("reset_session", id) \/ OpStep("store_entities", id)
            /\ sessions'[id].entities = None => OpStep("reset_session", id)
            /\ OpStep("get_entities", id) => last'.ents = sessions[id].entities
            /\ last'.op = "simulate" /\ ops' = ops + 1
                  => sessions'[id].entities = sessions[id].entities ]_vars

C7_Witness ==
    /\ last.op = "get_entities"
    /\ last.ents # None
    /\ served # None
    /\ served[1].sid = last.arg
    /\ last.ents = Some(served[1].ents)

C9_ResetThenRegenerate ==
    [][ /\ \A id \in DOMAIN sessions :
             OpStep("reset_session", id) =>
                /\ last'.ret = id
                /\ id \in DOMAIN sessions'
                /\ sessions'[id].created_at = sessions[id].created_at
                /\ sessions'[id].entities = None
                /\ sessions'[id].entity_constraints = None
        /\ ( /\ last.op = "reset_session"
             /\ last.ret = last.arg
             /\ last.arg \in DOMAIN sessions
             /\ use_ml_predictions
             /\ OpStep("simulate", last.arg) )
           => /\ last'.resp[1].status = "ok"
              /\ sessions'[last.arg].entities # None ]_vars

\* C10: no operation that presents a reaped session id raises.
C10_ReapedIdNeverRaises ==
    last.arg \in reaped => ~ last.raised

-----------------------------------------------------------------------------
(* Properties of the model life cycle *)

\* C11: predict on a manager that holds no model raises the initialization
\* error and returns no record; whenever predict returns a record, the
\* manager holds a model.
C11_PredictNeedsModel ==
    last.op = "predict" =>
        /\ last.req[1].model = None =>
              /\ last.resp[1].raised = "ValueError: Model not initialized"
              /\ last.ret = None
        /\ last.ret # None => last.req[1].model # None

C11_Witness ==
    /\ last.op = "predict"
    /\ phase = "serving"
    /\ manager[1].model = None
    /\ last.raised
    /\ last.ret = None

\* no cached bundle can be used on disk d: forced retraining, a missing
\* artifact or fingerprint file, another fingerprint, or files that do not load
NoUsableBundle(d, force_retrain) ==
    \/ force_retrain
    \/ d.model_file = None
    \/ d.hash_file = None
    \/ d.hash_file # Some(CalculateDatasetHash(d.data))
    \/ ~ d.scaler_files

C13_FingerprintGate ==
    use_ml_predictions =>
        /\ manager # None
        /\ manager[1].model # None
        /\ manager[1].model[1].stored_hash = Some(CalculateDatasetHash(disk.data))

\* C14: two runs of calculate_dataset_hash over the same files give the same
\* fingerprint, and changing one byte of one fingerprinted file changes the
\* fingerprint.
C14_FingerprintSensitive ==
    [][ /\ ( /\ last.op = "calculate_dataset_hash"
             /\ last'.op = "calculate_dataset_hash"
             /\ last'.req = last.req )
           => last'.ret = last.ret
        /\ disk'.data # disk.data
           => CalculateDatasetHash(disk'.data) # CalculateDatasetHash(disk.data) ]_vars

C14_Witness ==
    /\ last.op = "calculate_dataset_hash"
    /\ disk.edits > 0
    /\ last.req = Some(disk.data)
    /\ last.ret # CalculateDatasetHash(InitialData({}))
    /\ \A f \in Range(FilesToHash) : disk.data[f] # None

\* the fields of SimulationResponse (main.py:81-98) for a response: the five
\* baseline_ fields, the five KPI fields, confidence and summary
SimulationResponseOf(r) ==
    [ baseline |-> r.baseline[1], kpis |-> r.kpis[1], confidence |-> r.confidence,
      summary |-> IF r.path = "fallback" THEN "ML model not available"
                  ELSE "scenario summary" ]

\* C15: a live prediction carries a higher confidence than a degraded
\* answer, and the output record has a baseline flag that is set exactly
\* when its KPI values are the baseline record (degraded mode or baseline
\* short-circuit).
C15_BaselineFlag ==
    ( last.op = "simulate" /\ last.resp[1].status = "ok" ) =>
        LET r == last.resp[1]
            out == SimulationResponseOf(r)
        IN  /\ r.path = "ml" /\ ~ r.short_circuit => out.confidence > FallbackConfidence
            /\ r.path = "fallback" => out.confidence < MlConfidence
            /\ "is_baseline" \in DOMAIN out
            /\ out.is_baseline = (r.path = "fallback" \/ r.short_circuit)

-----------------------------------------------------------------------------
(* Properties of the encoders *)

\* the last operation was a call of the serving-time encoder
Encoded == last.op = "extract_features_from_scenario"

\* the edges of a list whose two ends are catalog names
KnownEdge(e) == InCatalog(e.from) /\ InCatalog(e.to)

\* the edges from a to b in an edge list, by position
EdgesFromTo(edges, a, b) == { i \in DOMAIN edges : edges[i].from = a /\ edges[i].to = b }
LastOf(S) == CHOOSE i \in S : \A j \in S : j <= i

\* C16: every call of extract_features_from_scenario returns a vector of
\* length TOTAL_FEATURE_DIM, whatever the activities, edges, entities and
\* scalers.
C16_FixedLength ==
    Encoded =>
        /\ ~ last.raised
        /\ Len(last.resp[1].vector[1]) = TOTAL_FEATURE_DIM

C16_Witness ==
    /\ Encoded
    /\ Len(last.req[1].activities) > MatrixSide
    /\ Len(last.req[1].edges) > 1
    /\ last.req[1].users # << >>
    /\ last.req[1].scalers # None
    /\ Len(last.resp[1].vector[1]) = TOTAL_FEATURE_DIM

\* C17: in the unscaled vector, the frequency cell of a catalog pair (a, b)
\* is the number of edges from a to b, and its duration cell is the
\* duration in minutes of the last edge from a to b (0 if there is none).
C17_CountAndLastDuration ==
    ( Encoded /\ last.req[1].scalers = None ) =>
        LET edges == last.req[1].edges
            v == last.resp[1].vector[1]
        IN  \A a \in Range(ALL_EVENTS), b \in Range(ALL_EVENTS) :
                LET cell == CellIndex(EventToIdx(a), EventToIdx(b))
                    hits == EdgesFromTo(edges, a, b)
                IN  /\ v[cell] = Cardinality(hits)
                    /\ v[FREQ_MATRIX_DIM + cell] =
                          IF hits = {} THEN 0
                          ELSE DurationHours(edges[LastOf(hits)]) * 60

C17_Witness ==
    /\ Encoded
    /\ last.req[1].scalers = None
    /\ \E i, j \in DOMAIN last.req[1].edges :
          /\ i < j
          /\ last.req[1].edges[i].from = NameA /\ last.req[1].edges[i].to = NameB
          /\ last.req[1].edges[j].from = NameA /\ last.req[1].edges[j].to = NameB
          /\ DurationHours(last.req[1].edges[i]) = 1
          /\ DurationHours(last.req[1].edges[j]) = 2
    /\ last.resp[1].vector[1][CellIndex(1, 2)] = 2
    /\ last.resp[1].vector[1][FREQ_MATRIX_DIM + CellIndex(1, 2)] = 120

\* C18: a call whose activities or edges name something outside the catalog
\* does not raise, and its two transition matrices are those of the call
\* without the edges that have an out-of-catalog end.
C18_UnknownNamesIgnored ==
    Encoded =>
        LET c == last.req[1]
            without == ExtractFeaturesFromScenario(c.activities,
                           SelectSeq(c.edges, KnownEdge), c.users, c.items,
                           c.suppliers, c.scalers)
            matrices == 1..(FREQ_MATRIX_DIM + DURATION_MATRIX_DIM)
        IN  /\ ~ last.raised
            /\ \A k \in matrices : last.resp[1].vector[1][k] = without.vector[1][k]

C18_Witness ==
    /\ Encoded
    /\ ~ last.raised
    /\ UnknownName \in Range(last.req[1].activities)
    /\ \E i, j \in DOMAIN last.req[1].edges :
          /\ ~ KnownEdge(last.req[1].edges[i])
          /\ KnownEdge(last.req[1].edges[j])
    /\ last.resp[1].vector[1][CellIndex(1, 2)] = 1

\* C19: a call with an empty activity list returns the all-zero vector of
\* length TOTAL_FEATURE_DIM, whatever edges and entities come with it.
C19_EmptyActivitiesAllZero ==
    ( Encoded /\ last.req[1].activities = << >> ) =>
        /\ ~ last.raised
        /\ last.resp[1].vector[1] = Zeros(TOTAL_FEATURE_DIM)

\* C20: the vector of either encoder has the input width of the model that
\* train_model.py built and persisted, so the serving-time vector is one
\* predict accepts.
C20_SameVectorContract ==
    ( last.op \in { "extract_features_from_scenario", "extract_features_for_order" }
      /\ ~ last.raised )
    => /\ Len(last.resp[1].vector[1]) = disk.model_file[1].input_dim
       /\ PredictOf([ NewModelManager EXCEPT !.model = LoadModelAndScalers(disk).model ],
                    Len(last.resp[1].vector[1]), << 0, 0, 0, 0, 0 >>).raised = ""

-----------------------------------------------------------------------------
(* Properties of the scalers, the scenario generator and the service *)

\* every scaler of the bundle was fitted on the width of its sub-range
ScalersFit(sc) == \A name \in DOMAIN ScalerWidths : sc[name].n_features_in = ScalerWidths[name]

\* the scaler of the bundle that position k of the vector belongs to
ScalerAt(sc, k) ==
    IF k <= FREQ_MATRIX_DIM THEN sc.freq
    ELSE IF k <= FREQ_MATRIX_DIM + DURATION_MATRIX_DIM THEN sc.duration
    ELSE IF k <= FREQ_MATRIX_DIM + DURATION_MATRIX_DIM + USER_VECTOR_DIM THEN sc.users
    ELSE IF k <= TOTAL_FEATURE_DIM - SUPPLIER_VECTOR_DIM
    THEN ( IF (k - (FREQ_MATRIX_DIM + DURATION_MATRIX_DIM + USER_VECTOR_DIM)) % 2 = 1
           THEN sc.items_qty ELSE sc.items_amt )
    ELSE sc.suppliers

\* C21: with a scaler whose fitted width differs from the width of its
\* sub-range the encoder raises and returns no vector; a vector it returns
\* has the full length and every position of it went through the scaler of
\* its sub-range.
C21_WidthMismatchIsHardError ==
    ( Encoded /\ last.req[1].scalers # None ) =>
        LET c == last.req[1]
            sc == c.scalers[1]
            raw == ExtractFeaturesFromScenario(c.activities, c.edges, c.users,
                                               c.items, c.suppliers, None).vector[1]
        IN  /\ ~ ScalersFit(sc) =>
                  /\ last.resp[1].raised = "ValueError"
                  /\ last.resp[1].vector = None
            /\ ~ last.raised =>
                  /\ Len(last.resp[1].vector[1]) = TOTAL_FEATURE_DIM
                  /\ \A k \in 1..TOTAL_FEATURE_DIM :
                        last.resp[1].vector[1][k] = Transform(ScalerAt(sc, k), << raw[k] >>)[1]

C21_Witness ==
    /\ Encoded
    /\ last.req[1].scalers # None
    /\ last.req[1].scalers[1].items_qty.n_features_in = NumItems + 1
    /\ last.req[1].items # << >>
    /\ last.raised
    /\ last.resp[1].vector = None

\* two recorded calls of generate_scenario_entities had the same seed and counts
SameCall(a, b) ==
    a.seed = b.seed /\ a.num_users = b.num_users /\ a.num_items = b.num_items

C23_DefaultTablesServe ==
    ( last.op = "generate_scenario_entities" /\ scenario_generator[1].defaults ) =>
        /\ ~ last.raised
        /\ last.ret # None

\* C24: the first simulate request of a session that has constraints stored
\* and no entities yet is answered from an entity set with the number of
\* users the constraints ask for.
C24_ConstraintsHonoured ==
    [][ \A id \in DOMAIN sessions :
          ( /\ OpStep("simulate", id)
            /\ use_ml_predictions
            /\ sessions[id].entities = None
            /\ sessions[id].entity_constraints # None )
          => /\ last'.resp[1].status = "ok"
             /\ Len(last'.resp[1].entities[1].users) =
                    sessions[id].entity_constraints[1].num_users ]_vars

\* C25: every KPI value predict returns lies between 0 and the top of its
\* domain (100, and 90 for days_sales_outstanding), in hundredths.
C25_KpisWithinDomain ==
    ( last.op = "predict" /\ last.ret # None ) =>
        \A name \in Range(KPI_NAMES) :
            /\ 0 <= last.ret[1][name]
            /\ last.ret[1][name] <= 100 * KPI_MULTIPLIERS[KpiIndex(name)]

\* C26: while the service is serving, no step changes the model or the
\* scalers of the manager.
C26_ModelReadOnly ==
    [][ ( phase = "serving" /\ manager # None ) =>
          /\ manager' # None
          /\ manager'[1].model = manager[1].model
          /\ manager'[1].scalers = manager[1].scalers ]_vars

C26_Witness ==
    /\ AnsweredByModelPath
    /\ ops >= 3
    /\ last.arg \in DOMAIN sessions
    /\ sessions[last.arg].entity_constraints # None
    /\ manager[1].model = StartupOutcome(disk).manager[1].model
    /\ manager[1].model # None
    /\ manager[1].scalers # None

\* C27: every simulate request with activities is answered with a record that holds the KPI
\* fields and the baseline fields.
C27_StructuredAnswer ==
    ( last.op = "simulate" /\ last.req[1].activities # << >> ) =>
        /\ last.resp[1].status = "ok"
        /\ last.resp[1].kpis # None
        /\ last.resp[1].baseline # None

\* C28: cleanup_expired_sessions only removes sessions and changes none; a
\* session whose simulate request was answered within the last
\* SessionTimeout seconds is not removed.
C28_ReapsOnlyIdle ==
    [][ ( ops' = ops + 1 /\ last'.op = "cleanup_expired_sessions" ) =>
          /\ DOMAIN sessions' \subseteq DOMAIN sessions
          /\ \A id \in DOMAIN sessions' : sessions'[id] = sessions[id]
          /\ ( /\ last.op = "simulate"
               /\ last.resp[1].status = "ok"
               /\ last.arg \in DOMAIN sessions
               /\ now - last.at <= SessionTimeout )
             => last.arg \in DOMAIN sessions' ]_vars

\* the operations of SessionManager that are addressed to one session id
AddressedOps ==
    { "get_session_seed", "reset_session", "store_entities",
      "store_entity_constraints", "delete_session" }

\* C29: an operation addressed to one session id leaves every other session
\* of the store in the store and unchanged.
C29_OtherSessionsUntouched ==
    [][ ( ops' = ops + 1 /\ last'.op \in AddressedOps ) =>
          \A id \in DOMAIN sessions \ { last'.arg } :
              /\ id \in DOMAIN sessions'
              /\ sessions'[id] = sessions[id] ]_vars

C29_Witness ==
    /\ last.op = "store_entities"
    /\ last.arg \in DOMAIN sessions
    /\ \E other \in DOMAIN sessions \ { last.arg } :
          /\ sessions[other].entities # None
          /\ sessions[other].entities # sessions[last.arg].entities

\* C30: use_ml_predictions is true only with a loaded model, its scalers
\* and a scenario generator; a simulate request enters the ML branch only
\* with a loaded model, and is answered from the degraded branch when no
\* model was loaded.
C30_MlFlagImpliesLoaded ==
    /\ use_ml_predictions =>
          /\ manager # None
          /\ manager[1].model # None
          /\ manager[1].scalers # None
          /\ scenario_generator # None
    /\ ( last.op = "simulate" /\ phase = "serving" ) =>
          /\ last.resp[1].path = "ml" => ( manager # None /\ manager[1].model # None )
          /\ ( manager = None \/ manager[1].model = None )
                => last.resp[1] = FallbackResponse

C30_Witness ==
    /\ last.op = "simulate"
    /\ phase = "serving"
    /\ disk.model_file # None
    /\ manager # None
    /\ manager[1].model = None
    /\ ~ use_ml_predictions
    /\ last.resp[1].path = "fallback"

====
